---- MODULE Spec2Model ----
(***************************************************************************)
(* State-machine model of PDFSplitterApp (src/pdf_splitter.py): the three  *)
(* entry fields, validate_pdf and split_pdf, the latter two unfolded into  *)
(* one step per statement group so that every exit path (return, raise)    *)
(* of the code is a distinct transition.  The document library (fitz) and  *)
(* the file system are the environment: each call into them either         *)
(* succeeds or raises, chosen nondeterministically.                        *)
(***************************************************************************)
EXTENDS Integers, Sequences, FiniteSets, TLC

\* ---------------------------------------------------------------- bounds
\* Largest page count a document of the model has.
MaxPages == 12
\* Largest positive number typed into the "Pages per split" entry.
MaxPps == 4
\* Output names '{base}_1.pdf' .. '{base}_MaxExisting.pdf' may pre-exist.
MaxExisting == 3
\* Page counts and segment sizes of the planning-only specification.
MaxPlanPages == 24
MaxPlanPps == 5

\* ------------------------------------------------------ program constants
\* 100 * 1024 * 1024, the size limit of validate_pdf.
MaxFileSize == 100 * 1024 * 1024
\* range(1, min(total_pages + 1, 21)): exclusive end of the divisor scan.
ScanCeiling == 21
\* suggestions[:5]
SuggestLimit == 5
\* The index of the output name probed before writing ('{base}_1.pdf').
FirstOutputIndex == 1

Min(a, b) == IF a < b THEN a ELSE b

\* ------------------------------------------------------------ strings
\* Strings are sequences of one-character strings.
Digits == <<"0", "1", "2", "3", "4", "5", "6", "7", "8", "9">>

IsDigit(c) == \E d \in 1..10 : Digits[d] = c

DigitVal(c) == (CHOOSE d \in 1..10 : Digits[d] = c) - 1

\* str(n) for n >= 0
RECURSIVE Str(_)
Str(n) == IF n < 10 THEN <<Digits[n + 1]>>
          ELSE Str(n \div 10) \o <<Digits[(n % 10) + 1]>>

RECURSIVE DecVal(_)
DecVal(s) == IF s = <<>> THEN 0
             ELSE 10 * DecVal(SubSeq(s, 1, Len(s) - 1)) + DigitVal(s[Len(s)])

AllDigits(s) == Len(s) > 0 /\ \A j \in 1..Len(s) : IsDigit(s[j])

\* str.strip() as int() applies it: leading and trailing blanks dropped.
RECURSIVE Strip(_)
Strip(s) == IF s = <<>> THEN s
            ELSE IF Head(s) = " " THEN Strip(Tail(s))
            ELSE IF s[Len(s)] = " " THEN Strip(SubSeq(s, 1, Len(s) - 1))
            ELSE s

\* int(s): ok = FALSE stands for ValueError.
ParseInt(s) ==
    LET t == Strip(s) IN
    IF AllDigits(t) THEN [ok |-> TRUE, val |-> DecVal(t)]
    ELSE IF Len(t) > 1 /\ t[1] = "-" /\ AllDigits(Tail(t))
         THEN [ok |-> TRUE, val |-> 0 - DecVal(Tail(t))]
    ELSE IF Len(t) > 1 /\ t[1] = "+" /\ AllDigits(Tail(t))
         THEN [ok |-> TRUE, val |-> DecVal(Tail(t))]
    ELSE [ok |-> FALSE, val |-> 0]

\* str.lower() on the letters that occur in the model's paths.
LowerChar(c) == IF c = "P" THEN "p" ELSE IF c = "D" THEN "d"
                ELSE IF c = "F" THEN "f" ELSE c

Lower(s) == [j \in 1..Len(s) |-> LowerChar(s[j])]

EndsWith(s, suf) ==
    /\ Len(s) >= Len(suf)
    /\ SubSeq(s, Len(s) - Len(suf) + 1, Len(s)) = suf

PdfSuffix == <<".", "p", "d", "f">>

\* file_path.lower().endswith('.pdf')
HasPdfExtension(path) == EndsWith(Lower(path), PdfSuffix)

\* ------------------------------------------------------------ inputs
\* What the file dialog can return ("" when cancelled) or the user can type.
InputPaths == { <<>>,
                <<"a", ".", "p", "d", "f">>,
                <<"a", ".", "P", "d", "F">>,
                <<"a", ".", "t", "x", "t">>,
                <<"p", "d", "f">> }

OutputDirs == { <<>>, <<"o">> }

\* Texts of the "Pages per split" entry.
PagesVarInputs == { <<>>, <<"x">>, <<"-">>, <<"-", "1">>, <<"0">>,
                    <<"0", "2">>, <<" ", "3">>, <<"1", "x">> }
                  \cup { Str(n) : n \in 1..MaxPps }

\* Results of os.path.getsize: a size in bytes.
FileSizes == { 0, 1, MaxFileSize - 1, MaxFileSize, MaxFileSize + 1 }

\* -------------------------------------------------------- split planning
\* if pages_per_split <= 0
PagesRejected(p) == p <= 0

\* Variant: the quotient taken for the remainder.
RemainderMut(tp, pps) == tp \div pps

\* remainder = total_pages % pages_per_split
Remainder(tp, pps) == tp % pps

\* if total_pages % pages_per_split != 0
IsUneven(tp, pps) == tp % pps # 0

\* Variant: the scan stops one candidate early (range(1, min(total_pages, 20))).
ScanStopMut(tp) == Min(tp, ScanCeiling - 1)

\* min(total_pages + 1, 21)
ScanStop(tp) == Min(tp + 1, ScanCeiling)

\* for i in range(lo, hi): if total_pages % i == 0: suggestions.append(str(i))
RECURSIVE ScanDivisors(_, _, _)
ScanDivisors(lo, hi, tp) ==
    IF lo >= hi THEN <<>>
    ELSE (IF tp % lo = 0 THEN <<Str(lo)>> ELSE <<>>)
         \o ScanDivisors(lo + 1, hi, tp)

\* seq[:n]
Take(seq, n) == SubSeq(seq, 1, Min(n, Len(seq)))

\* suggestions[:5] as joined into the warning message
Suggestions(tp) == Take(ScanDivisors(1, ScanStop(tp), tp), SuggestLimit)

\* (total_pages + pages_per_split - 1) // pages_per_split
NumSplits(tp, pps) == (tp + pps - 1) \div pps

\* Variant: an inclusive loop bound.
LoopContinuesMut(j, tp) == j <= tp

\* range(0, total_pages, pages_per_split) still yields j
LoopContinues(j, tp) == j < tp

\* Variant: the last segment is not clamped to the page count.
EndPageMut(j, pps, tp) == j + pps

\* min(i + pages_per_split, total_pages)
EndPage(j, pps, tp) == Min(j + pps, tp)

\* i // pages_per_split + 1, the number in the output file name
SegIndex(j, pps) == (j \div pps) + 1

\* Variant: the progress value is stepped twice per segment.
NextProgressMut(v) == v + 2

\* self.progress['value'] += 1
NextProgress(v) == v + 1

\* Variant: the existence probe never finds the first output name.
OverwriteProbeMut(files) == FALSE

\* os.path.exists(first_output)
OverwriteProbe(files) == FirstOutputIndex \in files

\* Variant: the answer of the dialog is ignored.
ProceedsMut(answer) == TRUE

\* if not messagebox.askyesno(...): doc.close(); return
Proceeds(answer) == answer

\* Variant: the exception is handled inside the loop, which goes on.
AfterExceptionMut == "update"

\* The except clause encloses the loop: after it split_pdf returns.
AfterException == "done"

\* ------------------------------------------------------------- state
VARIABLES
    input_path,       \* self.input_path
    output_path,      \* self.output_path
    pages_var,        \* self.pages_var
    pc,               \* position of control in split_pdf / validate_pdf
    pages_per_split,  \* local of split_pdf
    vchecks,          \* checks validate_pdf has performed, in order
    vdoc,             \* the handle validate_pdf opens: none/open/closed
    vresult,          \* return value of validate_pdf
    doc,              \* the source handle of split_pdf: none/open/closed
    closes,           \* number of doc.close() calls on the source handle
    total_pages,      \* local of split_pdf
    uneven,           \* the uneven-split warning shown, if any
    i,                \* loop variable of split_pdf
    new_doc,          \* the segment document: none/open/filled
    progress_value,   \* self.progress['value']
    progress_max,     \* self.progress['maximum']
    progress_visible, \* progress_frame packed
    written,          \* segments saved completely by this operation
    log,              \* events of this operation, in order
    disk,             \* indexes k such that '{base}_k.pdf' exists
    disk0,            \* disk when the operation started
    outcome,          \* how the operation ended
    failed            \* index of the segment whose extraction/save raised

ui == <<input_path, output_path, pages_var>>
val == <<vchecks, vdoc, vresult>>
src == <<doc, closes, total_pages, uneven>>
loopv == <<i, new_doc, written>>
prog == <<progress_value, progress_max, progress_visible>>
vars == <<input_path, output_path, pages_var, pc, pages_per_split, vchecks,
          vdoc, vresult, doc, closes, total_pages, uneven, i, new_doc,
          progress_value, progress_max, progress_visible, written, log,
          disk, disk0, outcome, failed>>

NoResult == [ok |-> FALSE, msg |-> "none"]
NoWarning == [shown |-> FALSE, remainder |-> 0, suggestions |-> <<>>]

Ev(e, k) == [ev |-> e, k |-> k]

\* The locals of split_pdf and the record of the operation, when no
\* operation is running.
OperationStart ==
    /\ pages_per_split' = 0
    /\ vchecks' = <<>>
    /\ vdoc' = "none"
    /\ vresult' = NoResult
    /\ doc' = "none"
    /\ closes' = 0
    /\ total_pages' = 0
    /\ uneven' = NoWarning
    /\ i' = 0
    /\ new_doc' = "none"
    /\ written' = <<>>
    /\ log' = <<>>
    /\ outcome' = "none"
    /\ failed' = 0

Init ==
    /\ input_path = <<>>
    /\ output_path = <<>>
    /\ pages_var = <<"1">>
    /\ pc = "idle"
    /\ pages_per_split = 0
    /\ vchecks = <<>>
    /\ vdoc = "none"
    /\ vresult = NoResult
    /\ doc = "none"
    /\ closes = 0
    /\ total_pages = 0
    /\ uneven = NoWarning
    /\ i = 0
    /\ new_doc = "none"
    /\ progress_value = 0
    /\ progress_max = 100
    /\ progress_visible = FALSE
    /\ written = <<>>
    /\ log = <<>>
    /\ disk \in SUBSET (1..MaxExisting)
    /\ disk0 = disk
    /\ outcome = "none"
    /\ failed = 0

\* ------------------------------------------------------ the entry fields
browse_input ==
    /\ pc = "idle"
    /\ \E filename \in InputPaths :
         input_path' = IF filename # <<>> THEN filename ELSE input_path
    /\ UNCHANGED <<output_path, pages_var, pc, pages_per_split, val, src,
                   loopv, prog, log, disk, disk0, outcome, failed>>

browse_output ==
    /\ pc = "idle"
    /\ \E directory \in OutputDirs :
         output_path' = IF directory # <<>> THEN directory ELSE output_path
    /\ UNCHANGED <<input_path, pages_var, pc, pages_per_split, val, src,
                   loopv, prog, log, disk, disk0, outcome, failed>>

\* The user types into the entry bound to pages_var.
edit_pages ==
    /\ pc = "idle"
    /\ \E text \in PagesVarInputs : pages_var' = text
    /\ UNCHANGED <<input_path, output_path, pc, pages_per_split, val, src,
                   loopv, prog, log, disk, disk0, outcome, failed>>

\* ------------------------------------------------------------ split_pdf
\* The "Split PDF" button: input_path.get(), output_path.get().
click_split ==
    /\ pc = "idle"
    /\ pc' = "parse"
    /\ disk0' = disk
    /\ OperationStart
    /\ UNCHANGED <<ui, prog, disk>>

\* messagebox.showerror(...); return
Reject(why) ==
    /\ outcome' = why
    /\ pc' = "done"

\* except Exception as e: showerror; progress_frame.pack_forget()
Raise(k) ==
    /\ outcome' = "failure"
    /\ failed' = k
    /\ progress_visible' = FALSE
    /\ pc' = AfterException
    /\ UNCHANGED <<progress_value, progress_max>>

\* pages_per_split = int(self.pages_var.get()), with its two error exits
parse_pages ==
    /\ pc = "parse"
    /\ LET r == ParseInt(pages_var) IN
         IF ~r.ok
         THEN /\ Reject("invalid_number")
              /\ UNCHANGED <<pages_per_split, log>>
         ELSE /\ pages_per_split' = r.val
              /\ IF PagesRejected(r.val)
                 THEN Reject("not_positive") /\ UNCHANGED log
                 ELSE /\ log' = Append(log, Ev("parse_ok", r.val))
                      /\ pc' = "paths"
                      /\ UNCHANGED outcome
    /\ UNCHANGED <<ui, val, src, loopv, prog, disk, disk0, failed>>

\* if not input_path or not output_dir
check_paths ==
    /\ pc = "paths"
    /\ IF input_path = <<>> \/ output_path = <<>>
       THEN Reject("missing_paths") /\ UNCHANGED log
       ELSE /\ log' = Append(log, Ev("paths_ok", 0))
            /\ pc' = "v_size"
            /\ UNCHANGED outcome
    /\ UNCHANGED <<ui, pages_per_split, val, src, loopv, prog, disk, disk0,
                   failed>>

\* --------------------------------------------------------- validate_pdf
\* os.path.getsize(file_path) > 100 * 1024 * 1024; getsize may raise
validate_size ==
    /\ pc = "v_size"
    /\ vchecks' = Append(vchecks, "size")
    /\ \/ \E size \in FileSizes :
            IF size > MaxFileSize
            THEN /\ vresult' = [ok |-> FALSE, msg |-> "too_large"]
                 /\ pc' = "v_ret"
            ELSE /\ pc' = "v_ext"
                 /\ UNCHANGED vresult
       \/ /\ vresult' = [ok |-> FALSE, msg |-> "exception"]
          /\ pc' = "v_ret"
    /\ UNCHANGED <<ui, pages_per_split, vdoc, src, loopv, prog, log, disk,
                   disk0, outcome, failed>>

\* if not file_path.lower().endswith('.pdf')
validate_ext ==
    /\ pc = "v_ext"
    /\ vchecks' = Append(vchecks, "ext")
    /\ IF ~HasPdfExtension(input_path)
       THEN /\ vresult' = [ok |-> FALSE, msg |-> "not_pdf"]
            /\ pc' = "v_ret"
       ELSE /\ pc' = "v_open"
            /\ UNCHANGED vresult
    /\ UNCHANGED <<ui, pages_per_split, vdoc, src, loopv, prog, log, disk,
                   disk0, outcome, failed>>

\* doc = fitz.open(file_path), which may raise
validate_open ==
    /\ pc = "v_open"
    /\ vchecks' = Append(vchecks, "open")
    /\ \/ /\ vdoc' = "open"
          /\ pc' = "v_ispdf"
          /\ UNCHANGED vresult
       \/ /\ vresult' = [ok |-> FALSE, msg |-> "exception"]
          /\ pc' = "v_ret"
          /\ UNCHANGED vdoc
    /\ UNCHANGED <<ui, pages_per_split, src, loopv, prog, log, disk, disk0,
                   outcome, failed>>

\* Variant: the invalid-format return forgets doc.close().
validate_is_pdf_mut ==
    /\ pc = "v_ispdf"
    /\ vchecks' = Append(vchecks, "is_pdf")
    /\ \/ /\ vresult' = [ok |-> FALSE, msg |-> "invalid_format"]
          /\ UNCHANGED vdoc
       \/ /\ vresult' = [ok |-> TRUE, msg |-> "valid"]
          /\ vdoc' = "closed"
    /\ pc' = "v_ret"
    /\ UNCHANGED <<ui, pages_per_split, src, loopv, prog, log, disk, disk0,
                   outcome, failed>>

\* if not doc.is_pdf: doc.close(); return False ... doc.close(); return True
validate_is_pdf ==
    /\ pc = "v_ispdf"
    /\ vchecks' = Append(vchecks, "is_pdf")
    /\ \E is_pdf \in BOOLEAN :
         vresult' = IF is_pdf THEN [ok |-> TRUE, msg |-> "valid"]
                    ELSE [ok |-> FALSE, msg |-> "invalid_format"]
    /\ vdoc' = "closed"
    /\ pc' = "v_ret"
    /\ UNCHANGED <<ui, pages_per_split, src, loopv, prog, log, disk, disk0,
                   outcome, failed>>

\* is_valid, message = self.validate_pdf(input_path); if not is_valid
check_valid ==
    /\ pc = "v_ret"
    /\ IF ~vresult.ok
       THEN Reject("invalid_pdf") /\ UNCHANGED log
       ELSE /\ log' = Append(log, Ev("valid", 0))
            /\ pc' = "open"
            /\ UNCHANGED outcome
    /\ UNCHANGED <<ui, pages_per_split, val, src, loopv, prog, disk, disk0,
                   failed>>

\* ------------------------------------------------- split_pdf, try block
\* doc = fitz.open(input_path); total_pages = doc.page_count
open_doc ==
    /\ pc = "open"
    /\ \/ /\ \E n \in 0..MaxPages : total_pages' = n
          /\ doc' = "open"
          /\ pc' = "even"
          /\ UNCHANGED <<prog, outcome, failed>>
       \/ /\ Raise(0)
          /\ UNCHANGED <<doc, total_pages>>
    /\ UNCHANGED <<ui, pages_per_split, val, closes, uneven, loopv, log,
                   disk, disk0>>

\* The answer the user gives to a yes/no dialog, as recorded in the log.
Answer(dialog, answer) ==
    Ev(dialog \o (IF answer THEN "_yes" ELSE "_no"), 0)

\* The uneven-split warning and its yes/no answer
check_even ==
    /\ pc = "even"
    /\ IF IsUneven(total_pages, pages_per_split)
       THEN /\ uneven' = [shown |-> TRUE,
                          remainder |-> Remainder(total_pages, pages_per_split),
                          suggestions |-> Suggestions(total_pages)]
            /\ \E answer \in BOOLEAN :
                 /\ log' = Append(log, Answer("uneven", answer))
                 /\ IF Proceeds(answer)
                    THEN /\ pc' = "overwrite"
                         /\ UNCHANGED <<doc, closes, outcome>>
                    ELSE /\ doc' = "closed"
                         /\ closes' = closes + 1
                         /\ Reject("declined_uneven")
       ELSE /\ pc' = "overwrite"
            /\ UNCHANGED <<uneven, log, doc, closes, outcome>>
    /\ UNCHANGED <<ui, pages_per_split, val, total_pages, loopv, prog, disk,
                   disk0, failed>>

\* first_output = '{input_basename}_1.pdf'; if os.path.exists(first_output)
check_overwrite ==
    /\ pc = "overwrite"
    /\ IF OverwriteProbe(disk)
       THEN \E answer \in BOOLEAN :
                 /\ log' = Append(log, Answer("overwrite", answer))
                 /\ IF Proceeds(answer)
                    THEN /\ pc' = "progress"
                         /\ UNCHANGED <<doc, closes, outcome>>
                    ELSE /\ doc' = "closed"
                         /\ closes' = closes + 1
                         /\ Reject("declined_overwrite")
       ELSE /\ pc' = "progress"
            /\ UNCHANGED <<log, doc, closes, outcome>>
    /\ UNCHANGED <<ui, pages_per_split, val, total_pages, uneven, loopv,
                   prog, disk, disk0, failed>>

\* progress_frame.pack; progress['value'] = 0; progress['maximum'] = num_splits
setup_progress ==
    /\ pc = "progress"
    /\ progress_visible' = TRUE
    /\ progress_value' = 0
    /\ progress_max' = NumSplits(total_pages, pages_per_split)
    /\ i' = 0
    /\ log' = Append(log, Ev("start", 0))
    /\ pc' = "loop"
    /\ UNCHANGED <<ui, pages_per_split, val, src, new_doc, written, disk,
                   disk0, outcome, failed>>

\* for i in range(0, total_pages, pages_per_split): new_doc = fitz.open()
loop_head ==
    /\ pc = "loop"
    /\ IF LoopContinues(i, total_pages)
       THEN /\ new_doc' = "open"
            /\ pc' = "insert"
       ELSE /\ pc' = "finish"
            /\ UNCHANGED new_doc
    /\ UNCHANGED <<ui, pages_per_split, val, src, i, written, prog, log,
                   disk, disk0, outcome, failed>>

\* new_doc.insert_pdf(doc, from_page=i, to_page=end_page-1), which may raise
insert_pdf ==
    /\ pc = "insert"
    /\ LET k == SegIndex(i, pages_per_split)
           last == EndPage(i, pages_per_split, total_pages) - 1 IN
       /\ log' = Append(log, [ev |-> "extract", k |-> k, from |-> i,
                              to |-> last])
       /\ \/ /\ new_doc' = "filled"
             /\ pc' = "save"
             /\ UNCHANGED <<prog, outcome, failed>>
          \/ /\ Raise(k)
             /\ UNCHANGED new_doc
    /\ UNCHANGED <<ui, pages_per_split, val, src, i, written, disk, disk0>>

\* new_doc.save(output_path, garbage=3, deflate=True); new_doc.close()
\* A save that raises may or may not leave a file of that name behind.
save_pdf ==
    /\ pc = "save"
    /\ LET k == SegIndex(i, pages_per_split)
           last == EndPage(i, pages_per_split, total_pages) - 1 IN
       /\ log' = Append(log, Ev("save", k))
       /\ \/ /\ disk' = disk \cup {k}
             /\ written' = Append(written, [index |-> k, from |-> i,
                                            to |-> last])
             /\ new_doc' = "none"
             /\ pc' = "update"
             /\ UNCHANGED <<prog, outcome, failed>>
          \/ /\ \E partial \in BOOLEAN :
                  disk' = IF partial THEN disk \cup {k} ELSE disk
             /\ Raise(k)
             /\ UNCHANGED <<new_doc, written>>
    /\ UNCHANGED <<ui, pages_per_split, val, src, i, disk0>>

\* self.progress['value'] += 1; self.root.update(); next i of the range
update_progress ==
    /\ pc = "update"
    /\ progress_value' = NextProgress(progress_value)
    /\ log' = Append(log, Ev("progress", NextProgress(progress_value)))
    /\ i' = i + pages_per_split
    /\ pc' = "loop"
    /\ UNCHANGED <<ui, pages_per_split, val, src, new_doc, written,
                   progress_max, progress_visible, disk, disk0, outcome,
                   failed>>

\* doc.close(); showinfo("Success", ...); progress_frame.pack_forget()
finish ==
    /\ pc = "finish"
    /\ doc' = "closed"
    /\ closes' = closes + 1
    /\ outcome' = "success"
    /\ progress_visible' = FALSE
    /\ pc' = "done"
    /\ UNCHANGED <<ui, pages_per_split, val, total_pages, uneven, loopv,
                   progress_value, progress_max, log, disk, disk0, failed>>

\* split_pdf has returned; the window is idle again.
return ==
    /\ pc = "done"
    /\ pc' = "idle"
    /\ disk0' = disk
    /\ OperationStart
    /\ UNCHANGED <<ui, prog, disk>>

Next ==
    \/ browse_input
    \/ browse_output
    \/ edit_pages
    \/ click_split
    \/ parse_pages
    \/ check_paths
    \/ validate_size
    \/ validate_ext
    \/ validate_open
    \/ validate_is_pdf
    \/ check_valid
    \/ open_doc
    \/ check_even
    \/ check_overwrite
    \/ setup_progress
    \/ loop_head
    \/ insert_pdf
    \/ save_pdf
    \/ update_progress
    \/ finish
    \/ return

Spec == Init /\ [][Next]_vars

\* ------------------------------------------- planning-only specification
\* split_pdf right after doc.page_count was read, for documents larger than
\* those of Spec: the state open_doc leaves, with more page counts.
PlanInit ==
    /\ pages_per_split \in 1..MaxPlanPps
    /\ total_pages \in 0..MaxPlanPages
    /\ input_path = <<"a", ".", "p", "d", "f">>
    /\ output_path = <<"o">>
    /\ pages_var = Str(pages_per_split)
    /\ pc = "even"
    /\ vchecks = <<"size", "ext", "open", "is_pdf">>
    /\ vdoc = "closed"
    /\ vresult = [ok |-> TRUE, msg |-> "valid"]
    /\ doc = "open"
    /\ closes = 0
    /\ uneven = NoWarning
    /\ i = 0
    /\ new_doc = "none"
    /\ progress_value = 0
    /\ progress_max = 100
    /\ progress_visible = FALSE
    /\ written = <<>>
    /\ log = <<Ev("parse_ok", pages_per_split), Ev("paths_ok", 0),
               Ev("valid", 0)>>
    /\ disk = {}
    /\ disk0 = {}
    /\ outcome = "none"
    /\ failed = 0

PlanNext == check_even

PlanSpec == PlanInit /\ [][PlanNext]_vars

\* ------------------------------------------------------ claim vocabulary
\* ceil(tp / pps), stated without the code's formula: the least n with
\* n * pps >= tp.
CeilDiv(tp, pps) ==
    CHOOSE n \in 0..tp : n * pps >= tp /\ (n = 0 \/ (n - 1) * pps < tp)

\* Positions of the log holding event e.
At(e) == { j \in 1..Len(log) : log[j].ev = e }

\* Positions at which a segment is extracted or saved.
WriteSteps == At("extract") \cup At("save")

\* Some position of ps precedes position j.
Before(ps, j) == \E a \in ps : a < j

\* The extract/save/progress events of the operation, in order.
LoopEvents ==
    SelectSeq(log, LAMBDA e : e.ev \in {"extract", "save", "progress"})

PagesOf(seg) == seg.to - seg.from + 1

WrittenIndexes == { written[j].index : j \in 1..Len(written) }

\* split_pdf has returned without writing because an input was refused or
\* a warning was answered no.
Refused ==
    outcome \in {"invalid_number", "not_positive", "missing_paths",
                 "invalid_pdf", "declined_uneven", "declined_overwrite"}

\* The uneven-split check of the running (or just ended) operation is past.
PastEvenCheck ==
    \/ pc \in {"overwrite", "progress", "loop", "insert", "save", "update",
               "finish"}
    \/ pc = "done" /\ outcome \in {"declined_uneven", "declined_overwrite",
                                   "success"}
    \/ pc = "done" /\ outcome = "failure" /\ At("start") # {}

\* ------------------------------------------------------------------ C1
\* C1: for pageCount >= 1 and pagesPerSegment >= 1 the segments written are
\* segment j = pages [(j-1)*pps, min(j*pps, pageCount) - 1] in order; the
\* progress maximum is ceil(pageCount / pps); and on success the number of
\* segments written is that ceiling and every page of [0, pageCount-1] lies
\* in exactly one written segment, none outside.
C1_PartitionExact ==
    (total_pages >= 1 /\ pages_per_split >= 1) =>
      /\ \A j \in 1..Len(written) :
           /\ written[j].index = j
           /\ written[j].from = (j - 1) * pages_per_split
           /\ written[j].to = Min(j * pages_per_split, total_pages) - 1
           /\ 0 <= written[j].from
           /\ written[j].from <= written[j].to
           /\ written[j].to <= total_pages - 1
      /\ At("start") # {} =>
           progress_max = CeilDiv(total_pages, pages_per_split)
      /\ outcome = "success" =>
           /\ Len(written) = CeilDiv(total_pages, pages_per_split)
           /\ \A p \in 0..(total_pages - 1) :
                Cardinality({ j \in 1..Len(written) :
                    written[j].from <= p /\ p <= written[j].to }) = 1

C1_Witness ==
    /\ outcome = "success"
    /\ total_pages = 7
    /\ pages_per_split = 3
    /\ Len(written) = 3
    /\ written[3].from = 6 /\ written[3].to = 6

\* ------------------------------------------------------------------ C2
\* C2: when the operation has ended, a source document that was opened is
\* closed, and it has been closed exactly once; it is never closed twice.
C2_ReleasedOnEveryExit ==
    /\ closes <= 1
    /\ (pc = "done" /\ doc # "none") => (doc = "closed" /\ closes = 1)

\* ------------------------------------------------------------------ C3
\* C3: if extraction or save of segment k fails, segments 1..k-1 are written
\* completely and are on disk, no extraction or save was attempted for a
\* segment above k, segment k was attempted once, and the operation has
\* ended with the failure outcome.
C3_StopOnFirstFailure ==
    failed # 0 =>
      /\ pc = "done"
      /\ outcome = "failure"
      /\ WrittenIndexes = 1..(failed - 1)
      /\ Len(written) = failed - 1
      /\ (1..(failed - 1)) \subseteq disk
      /\ \A j \in WriteSteps : log[j].k <= failed
      /\ Cardinality({ j \in At("extract") : log[j].k = failed }) = 1
      /\ Cardinality({ j \in At("save") : log[j].k = failed }) <= 1
      /\ At("progress") = { j \in At("progress") : log[j].k < failed }

C3_Witness ==
    /\ failed = 3
    /\ outcome = "failure"
    /\ Len(written) = 2
    /\ total_pages >= 4 * pages_per_split
    /\ At("save") # {} /\ log[Len(log)].ev = "save"

\* ------------------------------------------------------------------ C4
\* C4: every extraction or save is preceded, in the same operation, by the
\* pages-per-split text parsing as a positive integer, both paths being
\* non-empty, validate_pdf accepting the input, and a yes to every warning
\* shown; an operation that ended in a rejection or a no wrote no file.
C4_GatesBeforeWrite ==
    /\ \A j \in WriteSteps :
         /\ Before(At("parse_ok"), j)
         /\ ParseInt(pages_var).ok
         /\ ParseInt(pages_var).val > 0
         /\ pages_per_split = ParseInt(pages_var).val
         /\ Before(At("paths_ok"), j)
         /\ input_path # <<>>
         /\ output_path # <<>>
         /\ Before(At("valid"), j)
         /\ vresult.ok
         /\ uneven.shown => Before(At("uneven_yes"), j)
         /\ At("uneven_no") = {}
         /\ At("overwrite_no") = {}
         /\ \A a \in At("overwrite_yes") : a < j
    /\ (At("uneven_no") # {} \/ At("overwrite_no") # {}) =>
         (written = <<>> /\ WriteSteps = {} /\ disk = disk0)
    /\ Refused => (written = <<>> /\ WriteSteps = {} /\ disk = disk0)

C4_Witness ==
    /\ written # <<>>
    /\ uneven.shown
    /\ At("uneven_yes") # {}
    /\ At("overwrite_yes") # {}

\* ------------------------------------------------------------------ C5
\* C5: when '{base}_1.pdf' existed at the start and a segment is extracted or
\* saved, the overwrite question was asked before; when '{base}_1.pdf' did
\* not exist no overwrite question is asked, whatever other '{base}_k.pdf'
\* exist, and on success every such k >= 2 within the segment count has been
\* written over.
C5_ProbeFirstNameOnly ==
    /\ (FirstOutputIndex \in disk0) =>
         \A j \in WriteSteps : Before(At("overwrite_yes"), j)
    /\ (FirstOutputIndex \notin disk0) =>
         /\ At("overwrite_yes") = {}
         /\ At("overwrite_no") = {}
         /\ outcome = "success" =>
              \A k \in disk0 :
                 (k >= 2 /\ k <= CeilDiv(total_pages, pages_per_split))
                    => k \in WrittenIndexes

C5_Witness ==
    /\ 1 \in disk0
    /\ 2 \in disk0
    /\ At("overwrite_yes") # {}
    /\ outcome = "success"
    /\ Len(written) >= 2

\* ------------------------------------------------------------------ C6
\* C6 as stated: an operation whose pages-per-split is <= 0, or whose opened
\* document has pageCount <= 0, ends with an invalid-parameter error, writes
\* no segment and reports no success.
C6_Original ==
    pc = "done" =>
      /\ (ParseInt(pages_var).ok /\ ParseInt(pages_var).val <= 0) =>
           (outcome = "not_positive" /\ written = <<>>)
      /\ (doc # "none" /\ total_pages <= 0) =>
           (outcome \in {"not_positive", "invalid_number", "missing_paths",
                         "invalid_pdf"}
            /\ written = <<>>)

\* C6 amended: pages-per-split <= 0 ends with the invalid-parameter error
\* before the document is opened, nothing written; an opened document of
\* pageCount 0 is not refused: no segment is extracted or written and the
\* operation reports success unless the overwrite question is answered no.
C6_Amended ==
    /\ (pc = "done" /\ ParseInt(pages_var).ok
          /\ ParseInt(pages_var).val <= 0) =>
         /\ outcome = "not_positive"
         /\ written = <<>>
         /\ WriteSteps = {}
         /\ doc = "none"
         /\ disk = disk0
    /\ (doc # "none" /\ total_pages <= 0) =>
         /\ written = <<>>
         /\ WriteSteps = {}
         /\ disk = disk0
         /\ pc = "done" => outcome \in {"success", "declined_overwrite"}
         /\ (pc = "done" /\ At("overwrite_no") = {}) => outcome = "success"

C6_Witness ==
    /\ pc = "done"
    /\ doc = "closed"
    /\ total_pages = 0
    /\ outcome = "success"
    /\ written = <<>>

\* ------------------------------------------------------------------ C7
\* C7: the uneven-split warning is shown iff pageCount % pps # 0; the
\* remainder it reports is pageCount % pps; every written segment but the
\* last of the plan has exactly pps pages, and the last one written on
\* success has exactly the reported remainder.
C7_UnevenAdvisory ==
    PastEvenCheck =>
      /\ uneven.shown <=>
           (total_pages - pages_per_split * (total_pages \div pages_per_split)
              # 0)
      /\ uneven.shown =>
           /\ uneven.remainder =
                total_pages
                  - pages_per_split * (total_pages \div pages_per_split)
           /\ uneven.remainder >= 1
           /\ uneven.remainder < pages_per_split
           /\ \A j \in 1..Len(written) :
                IF j = CeilDiv(total_pages, pages_per_split)
                THEN PagesOf(written[j]) = uneven.remainder
                ELSE PagesOf(written[j]) = pages_per_split
           /\ outcome = "success" =>
                PagesOf(written[Len(written)]) = uneven.remainder

C7_Witness ==
    /\ outcome = "success"
    /\ uneven.shown
    /\ uneven.remainder = 2
    /\ Len(written) = 3
    /\ PagesOf(written[3]) = 2
    /\ PagesOf(written[1]) = 3

\* ------------------------------------------------------------------ C8
\* C8: for pageCount >= 1 the suggestions shown with the warning are the
\* decimal texts of divisors d of pageCount with 1 <= d <= min(pageCount,
\* 20), strictly increasing, at most 5, and exactly the 5 smallest such
\* divisors (all of them when there are fewer); for pageCount = 10 they are
\* 1, 2, 5, 10.
C8_Suggestions ==
    (uneven.shown /\ total_pages >= 1) =>
      LET S == uneven.suggestions
          D == { d \in 1..Min(total_pages, 20) : total_pages % d = 0 }
      IN /\ Len(S) <= 5
         /\ Len(S) = Min(5, Cardinality(D))
         /\ \A j \in 1..Len(S) : \E d \in D : S[j] = Str(d)
         /\ \A j \in 1..(Len(S) - 1) :
              ParseInt(S[j]).val < ParseInt(S[j + 1]).val
         /\ \A d \in D :
              (Cardinality({ e \in D : e < d }) < 5) =>
                 \E j \in 1..Len(S) : S[j] = Str(d)
         /\ total_pages = 10 =>
              S = << <<"1">>, <<"2">>, <<"5">>, <<"1", "0">> >>

C8_Witness ==
    /\ uneven.shown
    /\ total_pages = 24
    /\ uneven.suggestions = << <<"1">>, <<"2">>, <<"3">>, <<"4">>, <<"6">> >>

\* ------------------------------------------------------------------ C9
\* C9: validate_pdf checks size, then extension, then open-and-is-PDF and
\* stops at the first failure: "too large" is returned with only the size
\* examined and nothing opened, "not a PDF" with size and extension examined
\* and nothing opened; the extension test ignores case; and once
\* validate_pdf has returned, a handle it opened is closed.
C9_ValidateOrder ==
    /\ \E n \in 0..4 : vchecks = SubSeq(<<"size", "ext", "open", "is_pdf">>,
                                        1, n)
    /\ vresult.msg = "too_large" => (vchecks = <<"size">> /\ vdoc = "none")
    /\ vresult.msg = "not_pdf" =>
         (vchecks = <<"size", "ext">> /\ vdoc = "none")
    /\ vresult.ok => (vchecks = <<"size", "ext", "open", "is_pdf">>
                      /\ vdoc = "closed")
    /\ (Len(vchecks) >= 2 /\ input_path = <<"a", ".", "P", "d", "F">>) =>
         vresult.msg # "not_pdf"
    /\ (Len(vchecks) >= 2 /\ input_path = <<"a", ".", "t", "x", "t">>) =>
         vresult.msg = "not_pdf"
    /\ pc \notin {"v_size", "v_ext", "v_open", "v_ispdf"} => vdoc # "open"
    /\ vdoc # "none" => Len(vchecks) >= 3

C9_Witness ==
    /\ pc = "v_ret"
    /\ vdoc = "closed"
    /\ vresult.msg = "invalid_format"
    /\ input_path = <<"a", ".", "P", "d", "F">>

====
